---- MODULE Spec2Model ----
(***************************************************************************)
(* The ProfilingGraph view controller of                                   *)
(* trace/plugins/charts/profiling-graph/profiling-graph.tsx: its refs, the *)
(* debounced queryParams watcher, the timeRange watcher, and the three     *)
(* asynchronous handlers (handleQuery, handleModeChange, handleSortChange) *)
(* with the requests they leave in flight while suspended at `await`.      *)
(***************************************************************************)
EXTENDS Integers, Sequences, FiniteSets, Bags, TLC

\* ------------------------------------------------------------------ bounds
MaxInflight == 2      \* requests that may be awaiting a response at once
TickMs == 8           \* milliseconds that pass in one Tick step
MaxPendingCalls == 2  \* coalesced debounce calls are counted up to here
MaxKeywordLen == 4    \* characters of a filter keyword

\* ------------------------------------------------------- program constants
DebounceDelay == 16   \* debounce(16, ...)
NoHighlight == 0 - 1  \* highlightId "nothing selected"
MicroPerSecond == 1000000   \* Math.pow(10, 6)
NoTimer == 0 - 1      \* the debounce wrapper holds no pending timeout

\* ------------------------------------------------------------- value sets
ViewModeType == {"Combine", "Table", "Flame", "Topo"}

Undefined == "undefined"                 \* JavaScript undefined
InitFlame == "{name:'',children:undefined,id:''}"

\* queryParams props the parent may supply (a new object each time, so
\* the deep watcher runs even when the content is the same)
QueryParamsSet ==
    { [app_name |-> "profiling_bar", service_name |-> "fuxi_gin"],
      [app_name |-> "app1", service_name |-> "x"] }

\* timeRange values of toolsFormData, already as [start, end] seconds; the
\* watcher is deep, so replacing the array by one of the same content
\* runs it too
TimeRanges == { <<1, 2>> }

\* filter keywords: strings, as sequences of their characters
Chars == { " ", "a", "b" }
Whitespace == { " " }
Keywords == UNION { [1..n -> Chars] : n \in 0..MaxKeywordLen }

SortKeys == { "-total" }
HighlightIds == { 1 }

\* a JavaScript object without own properties: {}
EmptyObject == [k \in {} |-> k]

\* diagrams payloads the backend may return
Diagrams1 == [unit |-> "ms", table_data |-> <<"r1">>, flame_data |-> "f1",
              call_graph_data |-> "g1"]
DiagramsSet == { Diagrams1, EmptyObject }

\* what `await query(params)` can produce: a rejection, or a resolved body
Rejected == [rejected |-> TRUE]
Outcomes == { Rejected, EmptyObject } \cup { [diagrams |-> d] : d \in DiagramsSet }

NoRequest == EmptyObject
NoOutcome == [none |-> TRUE]

VARIABLES
    empty, activeMode, isLoading, tableData, flameData, unit, highlightId,
    topoSrc,          \* refs of setup()
    filterKeyword,    \* ref of setup(), written by onKeywordChange
    queryParams,      \* props.queryParams
    timeRange,        \* toolsFormData.value.timeRange
    timer,            \* ms left on the debounce timeout, or NoTimer
    inflight,         \* bag of the requests awaiting their response
    pendingCalls,     \* calls of the debounced function the pending
                      \* timeout stands for (history, saturating)
    event,            \* the step just taken: operation, argument, request
                      \* issued or answered, outcome of the request
    topoFetched,      \* a callgraph request was issued since the last
                      \* queryParams change (history)
    newest            \* the handleQuery request issued last, while its
                      \* response is outstanding (history)

refs == <<empty, activeMode, isLoading, tableData, flameData, unit,
          highlightId, topoSrc>>
vars == <<empty, activeMode, isLoading, tableData, flameData, unit,
          highlightId, topoSrc, filterKeyword, queryParams, timeRange,
          timer, pendingCalls, inflight, event, topoFetched, newest>>

\* ------------------------------------------------------------ pure helpers
\* object spread {...a, ...b}
Spread(a, b) ==
    [k \in DOMAIN a \cup DOMAIN b |-> IF k \in DOMAIN b THEN b[k] ELSE a[k]]

\* property read o.k of a JavaScript value (undefined when not present)
Get(o, k) == IF k \in DOMAIN o THEN o[k] ELSE Undefined

\* handleTransformToTimestamp: the range as [start, end] in seconds
handleTransformToTimestamp(range) == range

getParams(args, qp, range) ==
    LET se == handleTransformToTimestamp(range)
    IN  Spread(Spread(args, qp),
               [start |-> se[1] * MicroPerSecond,
                end |-> se[2] * MicroPerSecond,
                app_name |-> "profiling_bar",
                service_name |-> "fuxi_gin"])

\* `await query(params).catch(() => false)`: a rejection becomes false,
\* whose .diagrams is undefined like that of a body without the field
Data(outcome) == IF outcome = Rejected THEN EmptyObject ELSE outcome

HasDiagrams(outcome) == "diagrams" \in DOMAIN Data(outcome)

Request(handler, params) == [handler |-> handler, params |-> params]

\* the bag of requests in flight, with one request more or one less
Issue(req) == inflight (+) SetToBag({req})
Settle(req) == inflight (-) SetToBag({req})

Event(op, arg, req, outcome) ==
    [op |-> op, arg |-> arg, req |-> req, outcome |-> outcome]

\* ------------------------------------------------------------------- Init
Init ==
    /\ empty = TRUE
    /\ activeMode = "Combine"
    /\ isLoading = FALSE
    /\ tableData = <<>>
    /\ flameData = InitFlame
    /\ unit = ""
    /\ highlightId = NoHighlight
    /\ topoSrc = ""
    /\ filterKeyword = <<>>
    /\ queryParams \in QueryParamsSet
    /\ timeRange \in TimeRanges
    /\ timer = DebounceDelay          \* watch(..., { immediate: true })
    /\ pendingCalls = 1
    /\ inflight = EmptyBag
    /\ event = Event("setup", "", NoRequest, NoOutcome)
    /\ topoFetched = FALSE
    /\ newest = NoRequest

\* ------------------------------------------------- the debounced watcher
\* a wrapper that keeps the timeout already pending instead of replacing it
ArmDebounceKeepsPending == IF timer = NoTimer THEN DebounceDelay ELSE timer

\* watch([() => props.queryParams], debounce(16, ...), { deep: true }):
\* the parent replaces the prop; the debounce wrapper clears its pending
\* timeout and sets a new one of DebounceDelay ms
ArmDebounce == DebounceDelay

ParamChange(q) ==
    /\ UNCHANGED <<filterKeyword, newest>>
    /\ queryParams' = q
    /\ timer' = ArmDebounce
    /\ pendingCalls' = IF pendingCalls < MaxPendingCalls
                         THEN pendingCalls + 1 ELSE pendingCalls
    /\ topoFetched' = FALSE
    /\ event' = Event("paramChange", q, NoRequest, NoOutcome)
    /\ UNCHANGED <<refs, timeRange, inflight>>

\* time passes while a debounce timeout is pending
Tick ==
    /\ UNCHANGED <<filterKeyword, newest>>
    /\ timer > 0
    /\ timer' = IF timer > TickMs THEN timer - TickMs ELSE 0
    /\ event' = Event("tick", "", NoRequest, NoOutcome)
    /\ UNCHANGED <<refs, queryParams, timeRange, pendingCalls, inflight,
                   topoFetched>>

\* ---------------------------------------------------------- handleQuery
QueryArgs == [diagram_types |-> <<"table", "flamegraph">>]

QueryRequest(range) ==
    Request("handleQuery", getParams(QueryArgs, queryParams, range))

\* a handleQuery that withdraws the requests of earlier calls
HandleQueryCallCancelsEarlier(range) ==
    /\ BagCardinality(inflight) < MaxInflight
    /\ isLoading' = TRUE
    /\ highlightId' = NoHighlight
    /\ inflight' =
         [r \in {x \in DOMAIN inflight : x.handler # "handleQuery"} |->
             inflight[r]] (+) SetToBag({QueryRequest(range)})
    /\ newest' = QueryRequest(range)
    /\ UNCHANGED <<empty, activeMode, tableData, flameData, unit, topoSrc>>

\* handleQuery up to its await (lines 107-110), with the timeRange in
\* effect when it runs
HandleQueryCall(range) ==
    /\ BagCardinality(inflight) < MaxInflight
    /\ isLoading' = TRUE
    /\ highlightId' = NoHighlight
    /\ inflight' = Issue(QueryRequest(range))
    /\ newest' = QueryRequest(range)
    /\ UNCHANGED <<empty, activeMode, tableData, flameData, unit, topoSrc>>

\* the debounce timeout elapses and runs the wrapped handleQuery
DebounceFire ==
    /\ UNCHANGED filterKeyword
    /\ timer = 0
    /\ timer' = NoTimer
    /\ pendingCalls' = 0
    /\ HandleQueryCall(timeRange)
    /\ event' = Event("debounceFire", pendingCalls, QueryRequest(timeRange),
                      NoOutcome)
    /\ UNCHANGED <<queryParams, timeRange, topoFetched>>

\* watch(() => toolsFormData.value.timeRange, () => handleQuery())
TimeRangeChange(t) ==
    /\ UNCHANGED filterKeyword
    /\ timeRange' = t
    /\ HandleQueryCall(t)
    /\ event' = Event("timeRangeChange", t, QueryRequest(t), NoOutcome)
    /\ UNCHANGED <<queryParams, timer, pendingCalls, topoFetched>>

StoreDiagramsKeepsEmpty(d) ==
    /\ unit' = (IF "unit" \in DOMAIN d /\ d.unit # "" THEN d.unit ELSE "")
    /\ tableData' = (IF "table_data" \in DOMAIN d THEN d.table_data ELSE <<>>)
    /\ flameData' = Get(d, "flame_data")
    /\ UNCHANGED empty

\* lines 112-115: data.diagrams is truthy
StoreDiagrams(d) ==
    /\ unit' = (IF "unit" \in DOMAIN d /\ d.unit # "" THEN d.unit ELSE "")
    /\ tableData' = (IF "table_data" \in DOMAIN d THEN d.table_data ELSE <<>>)
    /\ flameData' = Get(d, "flame_data")
    /\ empty' = FALSE

MarkEmptyUnlessData ==
    /\ empty' = (tableData = <<>>)
    /\ UNCHANGED <<unit, tableData, flameData>>

MarkEmptyClearsData ==
    /\ empty' = TRUE
    /\ unit' = ""
    /\ tableData' = <<>>
    /\ flameData' = InitFlame

\* line 117: data is false or has no diagrams
MarkEmpty ==
    /\ empty' = TRUE
    /\ UNCHANGED <<unit, tableData, flameData>>

\* handleQuery after its await: lines 111-119. The catch of lines 120-124
\* runs only when the try block throws, which none of the Outcomes makes
\* it do: a rejection is turned into false by .catch, and false.diagrams
\* is undefined.
HandleQueryResume(outcome) ==
    /\ IF HasDiagrams(outcome)
         THEN StoreDiagrams(Data(outcome).diagrams)
         ELSE MarkEmpty
    /\ isLoading' = FALSE
    /\ UNCHANGED <<activeMode, highlightId, topoSrc>>

\* the request answered is the one issued last, or one issued before it
IsNewest(req) == req = newest
IsOlder(req) == ~IsNewest(req) \/ CopiesIn(req, inflight) > 1

\* the response to a handleQuery request in flight arrives; nothing ties
\* the order of the responses to the order of the requests
QueryResponse(req, outcome, which) ==
    /\ UNCHANGED filterKeyword
    /\ BagIn(req, inflight)
    /\ req.handler = "handleQuery"
    /\ \/ /\ which = "newest"
          /\ IsNewest(req)
          /\ newest' = NoRequest
       \/ /\ which = "older"
          /\ IsOlder(req)
          /\ UNCHANGED newest
    /\ inflight' = Settle(req)
    /\ HandleQueryResume(outcome)
    /\ event' = Event("queryResponse", [of |-> which, wasEmpty |-> empty],
                       req, outcome)
    /\ UNCHANGED <<queryParams, timeRange, timer, pendingCalls, topoFetched>>

\* ------------------------------------------------------ handleModeChange
TopoArgsAllDiagrams ==
    [diagram_types |-> <<"table", "flamegraph", "callgraph">>]
TopoArgs == [diagram_types |-> <<"callgraph">>]

TopoRequest ==
    Request("handleModeChange", getParams(TopoArgs, queryParams, timeRange))

NeedTopoIgnoresCache(val) == val = "Topo"

\* line 133: the topology has to be fetched
NeedTopo(val) == val = "Topo" /\ topoSrc = ""

SameModeNever(val) == FALSE

\* line 128: called with the mode already active
SameMode(val) == val = activeMode

\* the mode the handler found active and the mode it was called with
ModeArg(val) == [from |-> activeMode, to |-> val]

\* handleModeChange up to its await, or to its end: lines 128-137
HandleModeChange(val) ==
  /\ UNCHANGED <<filterKeyword, newest>>
  /\
    IF SameMode(val)
      THEN /\ event' = Event("handleModeChange", ModeArg(val), NoRequest,
                             NoOutcome)
           /\ UNCHANGED <<refs, queryParams, timeRange, timer, pendingCalls,
                          inflight, topoFetched>>
      ELSE /\ highlightId' = NoHighlight
           /\ activeMode' = val
           /\ IF NeedTopo(val)
                THEN /\ BagCardinality(inflight) < MaxInflight
                     /\ isLoading' = TRUE
                     /\ inflight' = Issue(TopoRequest)
                     /\ topoFetched' = TRUE
                     /\ event' = Event("handleModeChange", ModeArg(val),
                                       TopoRequest, NoOutcome)
                ELSE /\ event' = Event("handleModeChange", ModeArg(val),
                                       NoRequest, NoOutcome)
                     /\ UNCHANGED <<isLoading, inflight, topoFetched>>
           /\ UNCHANGED <<empty, tableData, flameData, unit, topoSrc,
                          queryParams, timeRange, timer, pendingCalls>>

CallGraphNoDefault(d) == Get(d, "call_graph_data")

\* line 139: data.diagrams.call_graph_data || ''
CallGraph(d) ==
    IF "call_graph_data" \in DOMAIN d THEN d.call_graph_data ELSE ""

HandleModeResumeLoadingInsideIf(outcome) ==
    /\ IF HasDiagrams(outcome)
         THEN /\ topoSrc' = CallGraph(Data(outcome).diagrams)
              /\ isLoading' = FALSE
         ELSE UNCHANGED <<topoSrc, isLoading>>
    /\ UNCHANGED <<empty, activeMode, tableData, flameData, unit, highlightId>>

HandleModeResumeMarksEmpty(outcome) ==
    /\ IF HasDiagrams(outcome)
         THEN /\ topoSrc' = CallGraph(Data(outcome).diagrams)
              /\ UNCHANGED empty
         ELSE /\ empty' = TRUE
              /\ UNCHANGED topoSrc
    /\ isLoading' = FALSE
    /\ UNCHANGED <<activeMode, tableData, flameData, unit, highlightId>>

\* handleModeChange after its await: lines 138-141
HandleModeResume(outcome) ==
    /\ IF HasDiagrams(outcome)
         THEN topoSrc' = CallGraph(Data(outcome).diagrams)
         ELSE UNCHANGED topoSrc
    /\ isLoading' = FALSE
    /\ UNCHANGED <<empty, activeMode, tableData, flameData, unit, highlightId>>

ModeResponse(req, outcome) ==
    /\ UNCHANGED <<filterKeyword, newest>>
    /\ BagIn(req, inflight)
    /\ req.handler = "handleModeChange"
    /\ inflight' = Settle(req)
    /\ HandleModeResume(outcome)
    /\ event' = Event("modeResponse", "", req, outcome)
    /\ UNCHANGED <<queryParams, timeRange, timer, pendingCalls, topoFetched>>

\* ------------------------------------------------------------- rendering
\* render(), lines 205-234: which children exist
TableVisibleWhenEmpty == activeMode \in {"Combine", "Table"}

TableVisible == ~empty /\ activeMode \in {"Combine", "Table"}
FlameVisible == ~empty /\ activeMode \in {"Combine", "Flame"}
TopoVisible == ~empty /\ activeMode = "Topo"
EmptyVisible == empty

\* ------------------------------------------------------ handleSortChange
SortArgs(sortKey) == [diagram_types |-> <<"table">>, sort |-> sortKey]

SortRequest(sortKey) ==
    Request("handleSortChange",
            getParams(SortArgs(sortKey), queryParams, timeRange))

\* emitted by TableGraph (onSortChange): lines 149-153
HandleSortChange(sortKey) ==
    /\ UNCHANGED <<filterKeyword, newest>>
    /\ TableVisible
    /\ BagCardinality(inflight) < MaxInflight
    /\ inflight' = Issue(SortRequest(sortKey))
    /\ event' = Event("handleSortChange", sortKey, SortRequest(sortKey),
                      NoOutcome)
    /\ UNCHANGED <<refs, queryParams, timeRange, timer, pendingCalls,
                   topoFetched>>

HandleSortResumeKeepsHighlight(outcome) ==
    /\ IF HasDiagrams(outcome)
         THEN LET d == Data(outcome).diagrams
              IN  tableData' = (IF "table_data" \in DOMAIN d
                                  THEN d.table_data ELSE <<>>)
         ELSE UNCHANGED tableData
    /\ UNCHANGED <<empty, activeMode, isLoading, flameData, unit, topoSrc,
                   highlightId>>

HandleSortResumeClearsOnFailure(outcome) ==
    /\ highlightId' = NoHighlight
    /\ IF HasDiagrams(outcome)
         THEN LET d == Data(outcome).diagrams
              IN  tableData' = (IF "table_data" \in DOMAIN d
                                  THEN d.table_data ELSE <<>>)
         ELSE tableData' = <<>>
    /\ UNCHANGED <<empty, activeMode, isLoading, flameData, unit, topoSrc>>

\* handleSortChange after its await: lines 154-157
HandleSortResume(outcome) ==
    /\ IF HasDiagrams(outcome)
         THEN LET d == Data(outcome).diagrams
              IN  /\ highlightId' = NoHighlight
                  /\ tableData' = (IF "table_data" \in DOMAIN d
                                     THEN d.table_data ELSE <<>>)
         ELSE UNCHANGED <<highlightId, tableData>>
    /\ UNCHANGED <<empty, activeMode, isLoading, flameData, unit, topoSrc>>

SortResponse(req, outcome) ==
    /\ UNCHANGED <<filterKeyword, newest>>
    /\ BagIn(req, inflight)
    /\ req.handler = "handleSortChange"
    /\ inflight' = Settle(req)
    /\ HandleSortResume(outcome)
    /\ event' = Event("sortResponse", "", req, outcome)
    /\ UNCHANGED <<queryParams, timeRange, timer, pendingCalls, topoFetched>>

\* onUpdateHighlightId of TableGraph and FrameGraph: lines 219, 231
UpdateHighlightId(id) ==
    /\ UNCHANGED <<filterKeyword, newest>>
    /\ TableVisible \/ FlameVisible
    /\ highlightId' = id
    /\ event' = Event("updateHighlightId", id, NoRequest, NoOutcome)
    /\ UNCHANGED <<empty, activeMode, isLoading, tableData, flameData, unit,
                   topoSrc, queryParams, timeRange, timer, pendingCalls,
                   inflight, topoFetched>>

\* --------------------------------------------------------- filterKeyword
\* String.prototype.trim on a sequence of characters
RECURSIVE TrimStart(_)
TrimStart(s) ==
    IF s # <<>> /\ Head(s) \in Whitespace THEN TrimStart(Tail(s)) ELSE s

RECURSIVE TrimEnd(_)
TrimEnd(s) ==
    IF s # <<>> /\ s[Len(s)] \in Whitespace
      THEN TrimEnd(SubSeq(s, 1, Len(s) - 1))
      ELSE s

Trim(s) == TrimEnd(TrimStart(s))

\* line 72: filterKeyword.value?.trim?.().length ? [filterKeyword.value] : []
flameFilterKeywordsOf(keyword) ==
    IF Len(Trim(keyword)) # 0 THEN <<keyword>> ELSE <<>>

flameFilterKeywords == flameFilterKeywordsOf(filterKeyword)

\* line 202: onKeywordChange={val => (this.filterKeyword = val)}
KeywordChange(val) ==
    /\ filterKeyword' = val
    /\ event' = Event("keywordChange", val, NoRequest, NoOutcome)
    /\ UNCHANGED <<refs, queryParams, timeRange, timer, pendingCalls,
                   inflight, topoFetched, newest>>

\* ------------------------------------------------------------------- Next
Next ==
    \/ \E q \in QueryParamsSet : ParamChange(q)
    \/ Tick
    \/ DebounceFire
    \/ \E t \in TimeRanges : TimeRangeChange(t)
    \/ \E req \in BagToSet(inflight), o \in Outcomes,
          which \in {"newest", "older"} : QueryResponse(req, o, which)
    \/ \E val \in ViewModeType : HandleModeChange(val)
    \/ \E req \in BagToSet(inflight), o \in Outcomes : ModeResponse(req, o)
    \/ \E k \in SortKeys : HandleSortChange(k)
    \/ \E req \in BagToSet(inflight), o \in Outcomes : SortResponse(req, o)
    \/ \E id \in HighlightIds : UpdateHighlightId(id)

Spec == Init /\ [][Next]_vars

\* the filter keyword is read by no handler and written by none of them:
\* the keyword input of ChartTitle is explored on its own
KeywordNext == \E val \in Keywords : KeywordChange(val)

KeywordSpec == Init /\ [][KeywordNext]_vars

\* ==================================================================
\* Properties
\* ==================================================================
\* a request is added to those in flight by this step
Added(r) == CopiesIn(r, inflight') > CopiesIn(r, inflight)
AddedRequests == { r \in BagToSet(inflight') : Added(r) }
CallgraphOnly(r) == r.params.diagram_types = <<"callgraph">>
TableFlame(r) == r.params.diagram_types = <<"table", "flamegraph">>
CallgraphIssued == \E r \in AddedRequests : CallgraphOnly(r)
OneMoreInFlight ==
    BagCardinality(inflight') = BagCardinality(inflight) + 1

\* the fetches whose handler raised isLoading and still awaits
LoadingFetches ==
    { r \in BagToSet(inflight) : r.handler \in {"handleQuery", "handleModeChange"} }

\* C1, as stated: between two consecutive queryParams changes (or from
\* setup to the first change) at most one callgraph request is issued,
\* whatever the mode switches and the responses.
C1_AtMostOneTopoFetchPerParams ==
    [][CallgraphIssued => ~topoFetched]_vars

\* C1, amended: topology is fetched at most once after it has been cached.
\* A callgraph request is issued only by a switch into Topo mode made while
\* topoSrc is empty, one request per such switch; once topoSrc is non-empty
\* no step issues a callgraph request any more.
C1_NoTopoFetchOnceCached ==
    [][CallgraphIssued =>
         /\ topoSrc = ""
         /\ activeMode # "Topo" /\ activeMode' = "Topo"
         /\ OneMoreInFlight]_vars

\* a switch into Topo after the topology was cached, with no request issued
C1_Witness ==
    /\ event.op = "handleModeChange"
    /\ event.arg.from # "Topo" /\ event.arg.to = "Topo"
    /\ topoSrc # ""
    /\ topoFetched
    /\ event.req = NoRequest

\* C2: a queryParams change resets the cached topology: after the change
\* topoSrc is empty again.
C2_ParamChangeResetsTopo ==
    [][(event'.op = "paramChange" /\ queryParams' # queryParams) =>
         topoSrc' = ""]_vars

\* C3: one table/flame fetch per debounce window. A queryParams change
\* issues no request and leaves a timeout of the full delay pending; the
\* pending timeout ends only when the whole delay has passed since the last
\* change, in a step that issues exactly one table/flame request, whatever
\* the number of changes the window collapsed.
C3_OneFetchPerDebounceWindow ==
    [][/\ event'.op = "paramChange" =>
            /\ inflight' = inflight
            /\ timer' = DebounceDelay
       /\ (timer # NoTimer /\ timer' = NoTimer) =>
            /\ timer = 0
            /\ OneMoreInFlight
            /\ \A r \in AddedRequests : TableFlame(r)
       /\ (timer = NoTimer /\ event'.op # "paramChange") => timer' = NoTimer]_vars

\* the timeout of a burst of several changes has just run handleQuery once
C3_Witness ==
    /\ event.op = "debounceFire"
    /\ event.arg >= 2
    /\ timer = NoTimer
    /\ CopiesIn(event.req, inflight) = 1

\* C4: loading is cleared on every path. Right after the response of a
\* table/flame or topology fetch is processed isLoading is false, whatever
\* the outcome, and isLoading is false whenever no such fetch is in flight.
C4_LoadingCleared ==
    /\ event.op \in {"queryResponse", "modeResponse"} => isLoading = FALSE
    /\ LoadingFetches = {} => isLoading = FALSE

\* a topology fetch has just failed and nothing is left in flight
C4_Witness ==
    /\ event.op = "modeResponse"
    /\ event.outcome = Rejected
    /\ inflight = EmptyBag
    /\ isLoading = FALSE

\* C5: after the failure of a table/flame fetch is processed, empty is true
\* and isLoading is false.
C5_FailureShowsEmpty ==
    (event.op = "queryResponse" /\ event.outcome = Rejected) =>
        (empty = TRUE /\ isLoading = FALSE)

\* a table/flame fetch has just failed while data of an earlier one is held
C5_Witness ==
    /\ event.op = "queryResponse"
    /\ event.outcome = Rejected
    /\ tableData = <<"r1">> /\ flameData = "f1" /\ unit = "ms"
    /\ empty = TRUE

\* C6: a table/flame response without diagrams sets empty, clears isLoading
\* and leaves tableData, flameData and unit as they were.
C6_NoDiagramsKeepsData ==
    [][(event'.op = "queryResponse" /\ event'.outcome = EmptyObject) =>
         /\ empty' = TRUE
         /\ isLoading' = FALSE
         /\ tableData' = tableData
         /\ flameData' = flameData
         /\ unit' = unit]_vars

\* a response without diagrams has just been processed over earlier data
C6_Witness ==
    /\ event.op = "queryResponse"
    /\ event.outcome = EmptyObject
    /\ tableData = <<"r1">> /\ flameData = "f1" /\ unit = "ms"
    /\ empty = TRUE /\ isLoading = FALSE

\* C7: a table/flame response with diagrams stores the unit, table rows and
\* flame tree it carries and leaves empty and isLoading false.
C7_DiagramsStored ==
    (event.op = "queryResponse" /\ "diagrams" \in DOMAIN event.outcome) =>
        LET d == event.outcome.diagrams
        IN  /\ "unit" \in DOMAIN d => unit = d.unit
            /\ "table_data" \in DOMAIN d => tableData = d.table_data
            /\ "flame_data" \in DOMAIN d => flameData = d.flame_data
            /\ empty = FALSE
            /\ isLoading = FALSE

\* the spec's scenario: table_data [r1], flame_data f1, unit 'ms'
C7_Witness ==
    /\ event.op = "queryResponse"
    /\ event.outcome = [diagrams |-> Diagrams1]
    /\ tableData = <<"r1">> /\ flameData = "f1" /\ unit = "ms"
    /\ empty = FALSE /\ isLoading = FALSE

\* C8: a switch to Topo mode while topoSrc is non-empty issues no request
\* and does not set isLoading.
C8_CachedTopoNoRequest ==
    [][(/\ event'.op = "handleModeChange"
        /\ event'.arg.to = "Topo"
        /\ activeMode # "Topo"
        /\ topoSrc # "") =>
         /\ inflight' = inflight
         /\ isLoading' = isLoading]_vars

\* Topo has just been entered with a cached topology and nothing loading
C8_Witness ==
    /\ event.op = "handleModeChange"
    /\ event.arg.from = "Combine" /\ event.arg.to = "Topo"
    /\ activeMode = "Topo"
    /\ topoSrc = "g1"
    /\ isLoading = FALSE
    /\ inflight = EmptyBag

\* C9: a mode change never fetches table/flame data: the only request
\* handleModeChange can issue is callgraph-only.
C9_ModeChangeOnlyCallgraph ==
    [][event'.op = "handleModeChange" =>
         \A r \in AddedRequests :
            /\ CallgraphOnly(r)
            /\ r.handler = "handleModeChange"]_vars

\* back in Table mode from Flame with data loaded, and nothing requested
C9_Witness ==
    /\ event.op = "handleModeChange"
    /\ event.arg.from = "Flame" /\ event.arg.to = "Table"
    /\ empty = FALSE
    /\ tableData = <<"r1">>
    /\ inflight = EmptyBag

\* C10: Combine -> Topo with an empty topoSrc issues exactly one request,
\* callgraph-only, and sets isLoading; when a topology response carries
\* diagrams, topoSrc becomes its call_graph_data, or "" when it has none,
\* and isLoading is false.
C10_TopoFetchedOnFirstSwitch ==
    [][/\ (/\ event'.op = "handleModeChange"
           /\ activeMode = "Combine"
           /\ event'.arg.to = "Topo"
           /\ topoSrc = "") =>
            /\ OneMoreInFlight
            /\ \A r \in AddedRequests : CallgraphOnly(r)
            /\ isLoading' = TRUE
       /\ (event'.op = "modeResponse" /\ "diagrams" \in DOMAIN event'.outcome) =>
            LET d == event'.outcome.diagrams
            IN  /\ topoSrc' = (IF "call_graph_data" \in DOMAIN d
                                 THEN d.call_graph_data ELSE "")
                /\ isLoading' = FALSE]_vars

\* the request of a Combine -> Topo switch has been answered with a graph
C10_Witness ==
    /\ event.op = "modeResponse"
    /\ event.outcome = [diagrams |-> Diagrams1]
    /\ activeMode = "Topo"
    /\ topoSrc = "g1"
    /\ isLoading = FALSE

\* C11: flameFilterKeywords is the empty list for an empty or
\* whitespace-only keyword and the one-element list of the trimmed keyword
\* otherwise.
C11_KeywordsTrimmed ==
    flameFilterKeywords =
        (IF Trim(filterKeyword) = <<>> THEN <<>> ELSE <<Trim(filterKeyword)>>)

\* C12: every request carries each field of the current queryParams with
\* the externally supplied value (service_name 'x' is sent as 'x').
C12_QueryParamsSent ==
    (/\ event.op \in {"debounceFire", "timeRangeChange", "handleModeChange",
                      "handleSortChange"}
     /\ event.req # NoRequest) =>
        \A k \in DOMAIN queryParams :
            /\ k \in DOMAIN event.req.params
            /\ event.req.params[k] = queryParams[k]

\* C13: a timeRange change goes through the same 16 ms debounce as a
\* queryParams change: the change itself issues no request and leaves the
\* timeout pending with the full delay.
C13_TimeRangeDebounced ==
    [][event'.op = "timeRangeChange" =>
         /\ inflight' = inflight
         /\ timer' = DebounceDelay]_vars

\* C20: whenever a table/flame fetch or a topology fetch is in flight,
\* isLoading is true.
C20_LoadingWhileInFlight ==
    LoadingFetches # {} => isLoading = TRUE

\* C14: no cancellation, last write wins. Issuing a table/flame fetch
\* withdraws no request already in flight, and the response of a request
\* older than the one issued last is applied like any other, also after the
\* newest one's: its diagrams are stored, or empty is set.
C14_NoCancellationLastWriteWins ==
    [][/\ event'.op \in {"debounceFire", "timeRangeChange"} =>
            inflight' = inflight (+) SetToBag({event'.req})
       /\ (event'.op = "queryResponse" /\ event'.arg.of = "older") =>
            LET o == event'.outcome
            IN  IF "diagrams" \in DOMAIN o
                  THEN /\ empty' = FALSE
                       /\ "table_data" \in DOMAIN o.diagrams =>
                             tableData' = o.diagrams.table_data
                       /\ "flame_data" \in DOMAIN o.diagrams =>
                             flameData' = o.diagrams.flame_data
                       /\ "unit" \in DOMAIN o.diagrams =>
                             unit' = o.diagrams.unit
                  ELSE empty' = TRUE]_vars

\* the newest request had been answered and the chart showed "no data";
\* then the response of an older request arrived last, and its rows, tree
\* and unit are what is shown
C14_Witness ==
    /\ event.op = "queryResponse"
    /\ event.arg = [of |-> "older", wasEmpty |-> TRUE]
    /\ newest = NoRequest
    /\ event.outcome = [diagrams |-> Diagrams1]
    /\ tableData = <<"r1">> /\ flameData = "f1" /\ unit = "ms"
    /\ empty = FALSE
    /\ LoadingFetches = {}

\* C15: a sort request carries diagram_types = ['table'] and the sort key
\* and changes nothing when issued; its response with diagrams replaces
\* tableData by the returned rows, or by the empty list when there are
\* none, resets highlightId to -1 and leaves flameData, unit, empty,
\* isLoading, activeMode and topoSrc as they were.
C15_SortSuccess ==
    [][/\ event'.op = "handleSortChange" =>
            /\ event'.req.params.diagram_types = <<"table">>
            /\ event'.req.params.sort = event'.arg
            /\ inflight' = inflight (+) SetToBag({event'.req})
            /\ UNCHANGED refs
       /\ (event'.op = "sortResponse" /\ "diagrams" \in DOMAIN event'.outcome) =>
            /\ tableData' =
                 (IF "table_data" \in DOMAIN event'.outcome.diagrams
                    THEN event'.outcome.diagrams.table_data ELSE <<>>)
            /\ highlightId' = NoHighlight
            /\ UNCHANGED <<flameData, unit, empty, isLoading, activeMode,
                           topoSrc>>]_vars

\* a sort response whose diagrams hold no rows emptied the table while the
\* flame tree and the unit of the earlier query stay on display
C15_Witness ==
    /\ event.op = "sortResponse"
    /\ event.outcome = [diagrams |-> EmptyObject]
    /\ tableData = <<>>
    /\ highlightId = NoHighlight
    /\ flameData = "f1" /\ unit = "ms"
    /\ empty = FALSE

\* C16: a sort request that is rejected, or answered without diagrams,
\* leaves every ref as it was: tableData, highlightId, flameData, unit,
\* empty, isLoading, activeMode and topoSrc; the handler ends normally.
C16_SortFailureNoChange ==
    [][(event'.op = "sortResponse" /\ "diagrams" \notin DOMAIN event'.outcome)
          => UNCHANGED refs]_vars

\* a rejected sort request left the rows and the highlighted row in place
C16_Witness ==
    /\ event.op = "sortResponse"
    /\ event.outcome = Rejected
    /\ tableData = <<"r1">>
    /\ highlightId = 1
    /\ empty = FALSE

\* C17: handleModeChange called with the mode already active issues no
\* request and changes no ref, also when that mode is Topo and topoSrc is
\* empty.
C17_SameModeNoOp ==
    [][(event'.op = "handleModeChange" /\ event'.arg.to = activeMode) =>
          /\ UNCHANGED refs
          /\ inflight' = inflight
          /\ event'.req = NoRequest]_vars

\* Topo re-selected while topoSrc is still empty: nothing in flight, not
\* loading
C17_Witness ==
    /\ event.op = "handleModeChange"
    /\ event.arg = [from |-> "Topo", to |-> "Topo"]
    /\ activeMode = "Topo"
    /\ topoSrc = ""
    /\ inflight = EmptyBag
    /\ isLoading = FALSE

\* C18: handleModeChange and the processing of its topology response never
\* modify tableData, flameData, unit or empty; highlightId is only ever
\* reset to -1, and a switch to another mode sets activeMode and resets
\* highlightId.
C18_ModeChangeKeepsData ==
    [][event'.op \in {"handleModeChange", "modeResponse"} =>
          /\ UNCHANGED <<tableData, flameData, unit, empty>>
          /\ highlightId' \in {highlightId, NoHighlight}
          /\ (event'.op = "handleModeChange" /\ event'.arg.to # activeMode) =>
                (activeMode' = event'.arg.to /\ highlightId' = NoHighlight)
          /\ event'.op = "modeResponse" =>
                UNCHANGED <<activeMode, highlightId>>]_vars

\* the topology request failed and the rows, tree and unit of the earlier
\* query are still there, not marked empty
C18_Witness ==
    /\ event.op = "modeResponse"
    /\ event.outcome = Rejected
    /\ activeMode = "Topo"
    /\ tableData = <<"r1">> /\ flameData = "f1" /\ unit = "ms"
    /\ empty = FALSE

\* C19: with empty false the table is rendered exactly in modes Combine and
\* Table, the flame graph exactly in Combine and Flame, the topology exactly
\* in Topo; with empty true none of them is rendered and the empty-state
\* display is, whatever topoSrc, tableData and flameData hold.
C19_VisibilityByMode ==
    /\ ~empty =>
          /\ TableVisible <=> activeMode \in {"Combine", "Table"}
          /\ FlameVisible <=> activeMode \in {"Combine", "Flame"}
          /\ TopoVisible <=> activeMode = "Topo"
          /\ ~EmptyVisible
    /\ empty =>
          /\ ~TableVisible /\ ~FlameVisible /\ ~TopoVisible
          /\ EmptyVisible

\* empty while a topology and earlier rows are held, in mode Topo: only the
\* empty-state display is rendered
C19_Witness ==
    /\ empty
    /\ activeMode = "Topo"
    /\ topoSrc # ""
    /\ tableData # <<>>
    /\ EmptyVisible /\ ~TopoVisible /\ ~TableVisible /\ ~FlameVisible

====
